---- MODULE Spec2Model ----
(***************************************************************************)
(* Model of the Ruby binding ext/exiv2/exiv2.cpp: the three metadata       *)
(* containers of an Exiv2::Image (EXIF, IPTC, XMP), the container views    *)
(* handed to Ruby, the each/add/delete/clear handlers, the IPTC encoding   *)
(* resolver, and the lifetime of images and views under Ruby's GC.         *)
(*                                                                         *)
(* Texts are sequences of byte values, so that Value::read (parsing) and   *)
(* the comparison against the ISO 2022 escape sequences are computed and   *)
(* not assumed.                                                            *)
(***************************************************************************)
EXTENDS Integers, Sequences, FiniteSets, TLC

\* Bounds of the model.
MaxLen == 3      \* add stops when the image holds this many entries in all
MaxObjs == 4     \* Ruby objects allocated in one run of the GC specification
MaxYields == 3   \* pairs one re-entrant traversal yields before the model stops it

VARIABLES
  exif,      \* [ObjIds -> Seq(Entry)] : Exiv2::Image::exifData() of each image
  iptc,      \* [ObjIds -> Seq(Entry)] : Exiv2::Image::iptcData()
  xmp,       \* [ObjIds -> Seq(Entry)] : Exiv2::Image::xmpData()
  op,        \* the last call made by the host and what it returned
  yielded,   \* the pairs rb_yield-ed by the last each()
  heap,      \* [ObjIds -> Ruby object] : T_DATA objects wrapped by the binding
  roots,     \* the objects the host still references
  trav       \* the each() traversal in progress (position of the C++ iterator)

vars == <<exif, iptc, xmp, op, yielded, heap, roots>>

ObjIds == 1..MaxObjs

-----------------------------------------------------------------------------
\* Texts: what to_std_string / value_to_std_string hand to the library.

Digits == 48..57

RECURSIVE ParseUInt(_)
\* operator>> of an unsigned integer on a text made of digits only
ParseUInt(t) ==
  IF t = <<>> THEN 0
  ELSE 10 * ParseUInt(SubSeq(t, 1, Len(t) - 1)) + (t[Len(t)] - 48)

IsDigits(t) == t # <<>> /\ \A i \in 1..Len(t) : t[i] \in Digits

\* Position of the first '/' (byte 47) in t, 0 if there is none.
SlashPos(t) ==
  IF \E i \in 1..Len(t) : t[i] = 47
  THEN CHOOSE i \in 1..Len(t) : t[i] = 47 /\ \A j \in 1..(i - 1) : t[j] # 47
  ELSE 0

\* The value objects of the library, one record shape for every type:
\*   nums  : components of ValueType<T> (integers n as <<n, 1>>, rationals <<n, d>>)
\*   str   : the bytes of a StringValueBase
\*   items : LangAltValue's map, in map order, as [lang, text]; XmpArrayValue's
\*           texts as [lang |-> "", text]
NoValue == [nums |-> <<>>, str |-> <<>>, items |-> <<>>]

\* Value::create(typeId) followed by Value::read(text): rc is read's return code
\* (0 = parsed), val the value object afterwards (unchanged, i.e. empty, when
\* read fails).
ReadValue(typeId, t) ==
  CASE typeId = "unsignedLong" ->
         IF IsDigits(t)
         THEN [rc |-> 0, val |-> [NoValue EXCEPT !.nums = << <<ParseUInt(t), 1>> >>]]
         ELSE [rc |-> 1, val |-> NoValue]
    [] typeId = "unsignedRational" ->
         LET p == SlashPos(t)
             n == SubSeq(t, 1, p - 1)
             d == SubSeq(t, p + 1, Len(t))
         IN IF p > 0 /\ IsDigits(n) /\ IsDigits(d)
            THEN [rc |-> 0,
                  val |-> [NoValue EXCEPT !.nums = << <<ParseUInt(n), ParseUInt(d)>> >>]]
            ELSE [rc |-> 1, val |-> NoValue]
    [] typeId = "string" ->
         [rc |-> 0, val |-> [NoValue EXCEPT !.str = t]]
    [] typeId = "langAlt" ->
         [rc |-> 0, val |-> [NoValue EXCEPT !.items = <<[lang |-> "x-default", text |-> t]>>]]
    [] typeId = "xmpBag" ->
         [rc |-> 0, val |-> [NoValue EXCEPT !.items =
                               IF t = <<>> THEN <<>> ELSE <<[lang |-> "", text |-> t]>>]]
    [] OTHER -> [rc |-> 1, val |-> NoValue]

-----------------------------------------------------------------------------
\* Tag dictionaries of the library, restricted to the keys the host uses here.
\* No modelled key has a float, date or time type.

ExifKeys == {"Exif.Image.ImageWidth", "Exif.Photo.ExposureTime"}
IptcKeys == {"Iptc.Envelope.CharacterSet", "Iptc.Application2.Keywords"}
XmpKeys  == {"Xmp.dc.title", "Xmp.dc.subject"}
\* Keys that ExifKey / IptcKey / XmpKey refuse (the constructor throws Exiv2::Error).
BadExifKey == "Exif.Bogus.Tag"
BadIptcKey == "Iptc.Bogus.Tag"
BadXmpKey  == "Xmp.bogus.tag"

\* ExifKey::defaultTypeId / ExifTags::tagType
ExifTypeId(k) ==
  IF k = "Exif.Image.ImageWidth" THEN "unsignedLong" ELSE "unsignedRational"

\* IptcDataSets::dataSetType
IptcTypeId(k) == "string"

\* IptcDataSets::dataSetRepeatable
IptcRepeatable(k) == k = "Iptc.Application2.Keywords"

\* XmpProperties::propertyType, used by Xmpdatum::operator=(std::string)
XmpTypeId(k) == IF k = "Xmp.dc.title" THEN "langAlt" ELSE "xmpBag"

\* A metadatum: key, type id, the value object and Value::ok().
MkEntry(k, typeId, v, isOk) == [key |-> k, typeId |-> typeId, val |-> v, ok |-> isOk]

\* Metadatum::count(): the value's count()
Count(e) ==
  CASE e.typeId \in {"langAlt", "xmpBag", "xmpSeq"} -> Len(e.val.items)
    [] e.typeId \in {"string", "undefined"} -> Len(e.val.str)
    [] OTHER -> Len(e.val.nums)

-----------------------------------------------------------------------------
\* Container primitives of the library as the handlers use them.

\* findKey: position of the first metadatum with this key; Len(data) + 1 is end().
FindKeyLast(data, k) ==
  IF \E i \in 1..Len(data) : data[i].key = k
  THEN CHOOSE i \in 1..Len(data) :
         data[i].key = k /\ \A j \in (i + 1)..Len(data) : data[j].key # k
  ELSE Len(data) + 1

FindKey(data, k) ==
  IF \E i \in 1..Len(data) : data[i].key = k
  THEN CHOOSE i \in 1..Len(data) :
         data[i].key = k /\ \A j \in 1..(i - 1) : data[j].key # k
  ELSE Len(data) + 1

\* erase(pos)
Erase(data, pos) == SubSeq(data, 1, pos - 1) \o SubSeq(data, pos + 1, Len(data))

\* ExifData::add(key, value): push_back
ExifDataAddFront(data, e) == <<e>> \o data

ExifDataAdd(data, e) == Append(data, e)

\* IptcData::add(key, value): refuses (rc 6) a second dataset of a non-repeatable
\* kind, otherwise push_back and rc 0.
IptcDataAdd(data, e) ==
  IF ~IptcRepeatable(e.key) /\ FindKey(data, e.key) <= Len(data)
  THEN [rc |-> 6, data |-> data]
  ELSE [rc |-> 0, data |-> Append(data, e)]

\* XmpData::operator[](key) = text: finds the datum with this key, appending an
\* empty one when there is none, and assigns it a new value read from the text.
XmpDataAssign(data, k, t) ==
  LET e   == MkEntry(k, XmpTypeId(k), ReadValue(XmpTypeId(k), t).val, TRUE)
      pos == FindKey(data, k)
  IN IF pos <= Len(data) THEN [data EXCEPT ![pos] = e] ELSE Append(data, e)

-----------------------------------------------------------------------------
\* The IPTC encoding resolver.

DefaultIptcEncoding == "ISO-8859-1"

\* The comparisons of iptc_parse_encoding on the marker's string value;
\* 27 is ESC, the other bytes are the ASCII codes of the sequence.
EscapeEncoding(value) ==
  CASE value = <<27, 37, 71>> \/ value = <<27, 37, 47, 73>> -> "UTF-8"
    [] value = <<27, 37, 47, 76>> -> "UTF-16"
    [] value = <<27, 37, 47, 70>> -> "UTF-32"
    [] value = <<27, 40, 66>> -> "US-ASCII"
    [] value = <<27, 46, 65>> -> "ISO-8859-1"
    [] value = <<27, 46, 66>> -> "ISO-8859-2"
    [] value = <<27, 46, 67>> -> "ISO-8859-3"
    [] value = <<27, 46, 68>> -> "ISO-8859-4"
    [] value = <<27, 46, 70>> -> "ISO-8859-7"
    [] value = <<27, 46, 71>> -> "ISO-8859-6"
    [] value = <<27, 46, 72>> -> "ISO-8859-8"
    [] value = <<27, 47, 98>> -> "ISO-8859-15"
    [] OTHER -> DefaultIptcEncoding

iptc_parse_encoding_any_entry(data) ==
  LET pos == FindKey(data, "Iptc.Envelope.CharacterSet")
  IN IF pos <= Len(data) THEN EscapeEncoding(data[pos].val.str)
     ELSE DefaultIptcEncoding

iptc_parse_encoding(data) ==
  LET pos == FindKey(data, "Iptc.Envelope.CharacterSet")
  IN IF pos <= Len(data) /\ data[pos].ok
     THEN EscapeEncoding(data[pos].val.str)
     ELSE DefaultIptcEncoding

-----------------------------------------------------------------------------
\* metadata_each: the type dispatch on one metadatum and the traversal.

UnsignedTypes == {"unsignedByte", "unsignedShort", "unsignedLong",
                  "unsignedLongLong", "tiffIfd", "tiffIfd8"}
SignedTypes == {"signedByte", "signedShort", "signedLong", "signedLongLong"}

\* A Ruby value handed to the block: [key, value] with the value's class (kind),
\* the encoding tagged on its strings, and the payload. idx is the position of
\* the metadatum the pair was made from.
Pair(idx, e, kind, enc, nums, str, items) ==
  [idx |-> idx, key |-> e.key, kind |-> kind, enc |-> enc,
   nums |-> nums, str |-> str, items |-> items]

\* The langAlt case: a String for a single x-default text, else a Hash of
\* every language of the map.
DecodeLangAltAnySingle(idx, e, enc) ==
  IF Count(e) = 1
  THEN Pair(idx, e, "String", enc, <<>>, e.val.items[1].text, <<>>)
  ELSE Pair(idx, e, "Hash", enc, <<>>, <<>>, e.val.items)

DecodeLangAlt(idx, e, enc) ==
  IF Count(e) = 1 /\ e.val.items[1].lang = "x-default"
  THEN Pair(idx, e, "String", enc, <<>>, e.val.items[1].text, <<>>)
  ELSE Pair(idx, e, "Hash", enc, <<>>, <<>>, e.val.items)

\* Kernel#Rational raises ZeroDivisionError for a zero denominator; rb_funcall
\* lets the exception leave metadata_each.
Raises(e) ==
  /\ e.typeId \in {"unsignedRational", "signedRational"}
  /\ e.val.nums[1][2] = 0

\* The switch of metadata_each for a metadatum with count() > 0 that does not raise.
Decode(idx, e, enc) ==
  CASE e.typeId \in UnsignedTypes \cup SignedTypes ->
         Pair(idx, e, "Integer", "", <<e.val.nums[1]>>, <<>>, <<>>)
    [] e.typeId \in {"unsignedRational", "signedRational"} ->
         Pair(idx, e, "Rational", "", <<e.val.nums[1]>>, <<>>, <<>>)
    [] e.typeId = "langAlt" -> DecodeLangAlt(idx, e, enc)
    [] e.typeId \in {"xmpBag", "xmpSeq"} ->
         Pair(idx, e, "Array", enc, <<>>, <<>>, e.val.items)
    [] OTHER -> Pair(idx, e, "String", enc, <<>>, e.val.str, <<>>)

RECURSIVE EachFrom(_, _, _, _)
\* The for loop of metadata_each from position i on, out being the pairs
\* yielded so far: [out, raised].
EachFrom(data, enc, i, out) ==
  IF i > Len(data) THEN [out |-> out, raised |-> FALSE]
  ELSE IF Count(data[i]) = 0 THEN EachFrom(data, enc, i + 1, out)
  ELSE IF Raises(data[i]) THEN [out |-> out, raised |-> TRUE]
  ELSE EachFrom(data, enc, i + 1, Append(out, Decode(i, data[i], enc)))

metadata_each(data, enc) == EachFrom(data, enc, 1, <<>>)

-----------------------------------------------------------------------------
\* Ruby objects. cls is the class of the T_DATA object ("none": not allocated,
\* "freed": swept); ivar is its @image instance variable (0: unset); ptr is
\* the image whose storage DATA_PTR points into (the image itself for an Image,
\* &image->exifData() etc. for a view).

NoObj == [cls |-> "none", ivar |-> 0, ptr |-> 0]
ImageObj(o) == [cls |-> "Image", ivar |-> 0, ptr |-> o]
ViewClasses == {"ExifData", "IptcData", "XmpData"}

OpenImages == {o \in ObjIds : heap[o].cls = "Image"}

Call(name, img, key, text, ret) ==
  [name |-> name, img |-> img, other |-> 0, key |-> key, text |-> text, ret |-> ret]

\* An Exiv2::Error thrown by a key constructor is caught by no handler of the
\* binding: the process ends there.
\* The same holds after a crash on a dangling iterator.
Running == op.ret \notin {"throw", "crash"}

\* A call made by the host while no each() of this binding is on the stack.
Host(A) == trav.pc = "idle" /\ A /\ UNCHANGED trav

NoTrav == [pc |-> "idle", ns |-> "", img |-> 0, it |-> 0, valid |-> TRUE,
           enc |-> "", out |-> <<>>, snap |-> <<>>]

\* Entries held by image i in its three containers.
Total(i) == Len(exif[i]) + Len(iptc[i]) + Len(xmp[i])

-----------------------------------------------------------------------------
\* ExifData methods (self is a view whose DATA_PTR is &image->exifData()).

exif_data_each(i) ==
  LET r == metadata_each(exif[i], "UTF-8")
  IN /\ Running
     /\ yielded' = r.out
     /\ op' = Call("exif.each", i, "", <<>>, IF r.raised THEN "raise" ELSE "nil")
     /\ UNCHANGED <<exif, iptc, xmp, heap, roots>>

exif_data_add(i, k, t) ==
  /\ Running
  /\ Total(i) < MaxLen
  /\ yielded' = <<>>
  /\ IF k \notin ExifKeys
     THEN /\ op' = Call("exif.add", i, k, t, "throw")
          /\ UNCHANGED exif
     ELSE LET typeId == ExifTypeId(k)
              v == ReadValue(typeId, t).val
          IN /\ exif' = [exif EXCEPT ![i] = ExifDataAdd(@, MkEntry(k, typeId, v, TRUE))]
             /\ op' = Call("exif.add", i, k, t, "true")
  /\ UNCHANGED <<iptc, xmp, heap, roots>>

exif_data_delete(i, k) ==
  /\ Running
  /\ yielded' = <<>>
  /\ IF k \notin ExifKeys
     THEN /\ op' = Call("exif.delete", i, k, <<>>, "throw")
          /\ UNCHANGED exif
     ELSE LET pos == FindKey(exif[i], k)
          IN IF pos = Len(exif[i]) + 1
             THEN /\ op' = Call("exif.delete", i, k, <<>>, "false")
                  /\ UNCHANGED exif
             ELSE /\ exif' = [exif EXCEPT ![i] = Erase(@, pos)]
                  /\ op' = Call("exif.delete", i, k, <<>>, "true")
  /\ UNCHANGED <<iptc, xmp, heap, roots>>

exif_data_clear(i) ==
  /\ Running
  /\ yielded' = <<>>
  /\ exif' = [exif EXCEPT ![i] = <<>>]
  /\ op' = Call("exif.clear", i, "", <<>>, "nil")
  /\ UNCHANGED <<iptc, xmp, heap, roots>>

-----------------------------------------------------------------------------
\* IptcData methods.

iptc_data_each(i) ==
  LET encoding == iptc_parse_encoding(iptc[i])
      r == metadata_each(iptc[i], encoding)
  IN /\ Running
     /\ yielded' = r.out
     /\ op' = Call("iptc.each", i, "", <<>>, IF r.raised THEN "raise" ELSE "nil")
     /\ UNCHANGED <<exif, iptc, xmp, heap, roots>>

iptc_data_add(i, k, t) ==
  /\ Running
  /\ Total(i) < MaxLen
  /\ yielded' = <<>>
  /\ IF k \notin IptcKeys
     THEN /\ op' = Call("iptc.add", i, k, t, "throw")
          /\ UNCHANGED iptc
     ELSE LET typeId == IptcTypeId(k)
              v == ReadValue(typeId, t).val
              r == IptcDataAdd(iptc[i], MkEntry(k, typeId, v, TRUE))
          IN /\ iptc' = [iptc EXCEPT ![i] = r.data]
             /\ op' = Call("iptc.add", i, k, t, IF r.rc # 0 THEN "false" ELSE "true")
  /\ UNCHANGED <<exif, xmp, heap, roots>>

iptc_data_delete(i, k) ==
  /\ Running
  /\ yielded' = <<>>
  /\ IF k \notin IptcKeys
     THEN /\ op' = Call("iptc.delete", i, k, <<>>, "throw")
          /\ UNCHANGED iptc
     ELSE LET pos == FindKey(iptc[i], k)
          IN IF pos = Len(iptc[i]) + 1
             THEN /\ op' = Call("iptc.delete", i, k, <<>>, "false")
                  /\ UNCHANGED iptc
             ELSE /\ iptc' = [iptc EXCEPT ![i] = Erase(@, pos)]
                  /\ op' = Call("iptc.delete", i, k, <<>>, "true")
  /\ UNCHANGED <<exif, xmp, heap, roots>>

iptc_data_clear(i) ==
  /\ Running
  /\ yielded' = <<>>
  /\ iptc' = [iptc EXCEPT ![i] = <<>>]
  /\ op' = Call("iptc.clear", i, "", <<>>, "nil")
  /\ UNCHANGED <<exif, xmp, heap, roots>>

-----------------------------------------------------------------------------
\* XmpData methods.

xmp_data_each(i) ==
  LET r == metadata_each(xmp[i], "UTF-8")
  IN /\ Running
     /\ yielded' = r.out
     /\ op' = Call("xmp.each", i, "", <<>>, IF r.raised THEN "raise" ELSE "nil")
     /\ UNCHANGED <<exif, iptc, xmp, heap, roots>>

xmp_data_add(i, k, t) ==
  /\ Running
  /\ Total(i) < MaxLen
  /\ yielded' = <<>>
  /\ IF k \notin XmpKeys
     THEN /\ op' = Call("xmp.add", i, k, t, "throw")
          /\ UNCHANGED xmp
     ELSE /\ xmp' = [xmp EXCEPT ![i] = XmpDataAssign(@, k, t)]
          /\ op' = Call("xmp.add", i, k, t, "true")
  /\ UNCHANGED <<exif, iptc, heap, roots>>

xmp_data_delete(i, k) ==
  /\ Running
  /\ yielded' = <<>>
  /\ IF k \notin XmpKeys
     THEN /\ op' = Call("xmp.delete", i, k, <<>>, "throw")
          /\ UNCHANGED xmp
     ELSE LET pos == FindKey(xmp[i], k)
          IN IF pos = Len(xmp[i]) + 1
             THEN /\ op' = Call("xmp.delete", i, k, <<>>, "false")
                  /\ UNCHANGED xmp
             ELSE /\ xmp' = [xmp EXCEPT ![i] = Erase(@, pos)]
                  /\ op' = Call("xmp.delete", i, k, <<>>, "true")
  /\ UNCHANGED <<exif, iptc, heap, roots>>

xmp_data_clear(i) ==
  /\ Running
  /\ yielded' = <<>>
  /\ xmp' = [xmp EXCEPT ![i] = <<>>]
  /\ op' = Call("xmp.clear", i, "", <<>>, "nil")
  /\ UNCHANGED <<exif, iptc, heap, roots>>

-----------------------------------------------------------------------------
\* Image methods.

\* What Exiv2::Image::readMetadata can find in a file: a repeated EXIF tag and a
\* rational with a zero denominator, a character-set marker whose value is
\* flagged not ok, a title in two languages.
FileExif == <<MkEntry("Exif.Photo.ExposureTime", "unsignedRational",
                      [NoValue EXCEPT !.nums = << <<1, 0>> >>], TRUE)>>
FileIptc == <<MkEntry("Iptc.Envelope.CharacterSet", "string",
                      [NoValue EXCEPT !.str = <<27, 37, 71>>], FALSE)>>
FileXmp == <<MkEntry("Xmp.dc.title", "langAlt",
                     [NoValue EXCEPT !.items = <<[lang |-> "x-default", text |-> <<55>>],
                                                 [lang |-> "de", text |-> <<55>>]>>], TRUE)>>
Files == {[exif |-> FileExif, iptc |-> FileIptc, xmp |-> FileXmp]}

image_read_metadata(i) ==
  /\ Running
  /\ yielded' = <<>>
  /\ \/ \E f \in Files :
          /\ exif' = [exif EXCEPT ![i] = f.exif]
          /\ iptc' = [iptc EXCEPT ![i] = f.iptc]
          /\ xmp' = [xmp EXCEPT ![i] = f.xmp]
          /\ op' = Call("image.read_metadata", i, "", <<>>, "nil")
     \/ \* BasicError before the containers are touched (the file cannot be opened)
        /\ op' = Call("image.read_metadata", i, "", <<>>, "raise")
        /\ UNCHANGED <<exif, iptc, xmp>>
     \/ \* BasicError after clearMetadata (the file is corrupt)
        /\ exif' = [exif EXCEPT ![i] = <<>>]
        /\ iptc' = [iptc EXCEPT ![i] = <<>>]
        /\ xmp' = [xmp EXCEPT ![i] = <<>>]
        /\ op' = Call("image.read_metadata", i, "", <<>>, "raise")
  /\ UNCHANGED <<heap, roots>>

image_write_metadata(i) ==
  /\ Running
  /\ yielded' = <<>>
  /\ \E r \in {"nil", "raise"} : op' = Call("image.write_metadata", i, "", <<>>, r)
  /\ UNCHANGED <<exif, iptc, xmp, heap, roots>>

\* Image::setMetadata(image): the three containers of the other image are
\* assigned copies of this image's.
image_copy_to_image_no_xmp(i, j) ==
  /\ Running
  /\ yielded' = <<>>
  /\ exif' = [exif EXCEPT ![j] = exif[i]]
  /\ iptc' = [iptc EXCEPT ![j] = iptc[i]]
  /\ op' = [Call("image.copy_to_image", i, "", <<>>, "true") EXCEPT !.other = j]
  /\ UNCHANGED <<xmp, heap, roots>>

image_copy_to_image(i, j) ==
  /\ Running
  /\ yielded' = <<>>
  /\ exif' = [exif EXCEPT ![j] = exif[i]]
  /\ iptc' = [iptc EXCEPT ![j] = iptc[i]]
  /\ xmp' = [xmp EXCEPT ![j] = xmp[i]]
  /\ op' = [Call("image.copy_to_image", i, "", <<>>, "true") EXCEPT !.other = j]
  /\ UNCHANGED <<heap, roots>>

image_clear_no_xmp(i) ==
  /\ Running
  /\ yielded' = <<>>
  /\ exif' = [exif EXCEPT ![i] = <<>>]
  /\ iptc' = [iptc EXCEPT ![i] = <<>>]
  /\ op' = Call("image.clear", i, "", <<>>, "true")
  /\ UNCHANGED <<xmp, heap, roots>>

image_clear(i) ==
  /\ Running
  /\ yielded' = <<>>
  /\ exif' = [exif EXCEPT ![i] = <<>>]
  /\ iptc' = [iptc EXCEPT ![i] = <<>>]
  /\ xmp' = [xmp EXCEPT ![i] = <<>>]
  /\ op' = Call("image.clear", i, "", <<>>, "true")
  /\ UNCHANGED <<heap, roots>>

-----------------------------------------------------------------------------
\* Specification of the container and image operations on one open image.

\* The state after ImageFactory.open of n files, the host holding every image,
\* the first image holding the containers e0, i0, x0.
InitWith(n, e0, i0, x0) ==
  /\ exif = [o \in ObjIds |-> IF o = 1 THEN e0 ELSE <<>>]
  /\ iptc = [o \in ObjIds |-> IF o = 1 THEN i0 ELSE <<>>]
  /\ xmp = [o \in ObjIds |-> IF o = 1 THEN x0 ELSE <<>>]
  /\ op = Call("init", 0, "", <<>>, "nil")
  /\ yielded = <<>>
  /\ heap = [o \in ObjIds |-> IF o <= n THEN ImageObj(o) ELSE NoObj]
  /\ roots = 1..n
  /\ trav = NoTrav

\* Values the host passes to add: "7", "1/0", "x" for EXIF; "7" and ESC % G
\* for IPTC; "7" and the empty string for XMP.
ExifTexts == {<<55>>, <<49, 47, 48>>, <<120>>}
IptcTexts == {<<55>>, <<27, 37, 71>>}
XmpTexts == {<<55>>, <<>>}

Init == InitWith(1, <<>>, <<>>, <<>>)

Next ==
  \/ \E i \in OpenImages : Host(exif_data_each(i))
  \/ \E i \in OpenImages, k \in ExifKeys \cup {BadExifKey}, t \in ExifTexts : Host(exif_data_add(i, k, t))
  \/ \E i \in OpenImages, k \in ExifKeys \cup {BadExifKey} : Host(exif_data_delete(i, k))
  \/ \E i \in OpenImages : Host(exif_data_clear(i))
  \/ \E i \in OpenImages : Host(iptc_data_each(i))
  \/ \E i \in OpenImages, k \in IptcKeys \cup {BadIptcKey}, t \in IptcTexts : Host(iptc_data_add(i, k, t))
  \/ \E i \in OpenImages, k \in IptcKeys \cup {BadIptcKey} : Host(iptc_data_delete(i, k))
  \/ \E i \in OpenImages : Host(iptc_data_clear(i))
  \/ \E i \in OpenImages : Host(xmp_data_each(i))
  \/ \E i \in OpenImages, k \in XmpKeys \cup {BadXmpKey}, t \in XmpTexts : Host(xmp_data_add(i, k, t))
  \/ \E i \in OpenImages, k \in XmpKeys \cup {BadXmpKey} : Host(xmp_data_delete(i, k))
  \/ \E i \in OpenImages : Host(xmp_data_clear(i))
  \/ \E i \in OpenImages : Host(image_read_metadata(i))
  \/ \E i \in OpenImages : Host(image_write_metadata(i))
  \/ \E i \in OpenImages : Host(image_copy_to_image(i, i))
  \/ \E i \in OpenImages : Host(image_clear(i))

Spec == Init /\ [][Next]_vars

-----------------------------------------------------------------------------
\* Properties of the container operations (checked under Spec).

DeleteCalls == {"exif.delete", "iptc.delete", "xmp.delete"}
AddCalls == {"exif.add", "iptc.add", "xmp.add"}
EachCalls == {"exif.each", "iptc.each", "xmp.each"}

\* c2 is c without its first entry of key k, the rest in unchanged order.
FirstMatchRemoved(c, c2, k) ==
  \E p \in 1..Len(c) :
    /\ c[p].key = k
    /\ \A j \in 1..(p - 1) : c[j].key # k
    /\ Len(c2) = Len(c) - 1
    /\ \A j \in 1..(p - 1) : c2[j] = c[j]
    /\ \A j \in p..Len(c2) : c2[j] = c[j + 1]

HasKey(c, k) == \E p \in 1..Len(c) : c[p].key = k

DeleteRemovesFirst(name, c, c2) ==
  (op'.name = name /\ HasKey(c[op'.img], op'.key)) =>
     /\ op'.ret = "true"
     /\ FirstMatchRemoved(c[op'.img], c2[op'.img], op'.key)

\* C1: in each of the three containers, delete(key) on a container holding the
\* key (in particular holding it twice) returns true and removes exactly the
\* first entry with that key; every other entry, the second entry of that key
\* included, stays in the container in unchanged order, where each() traverses it.
C1_DeleteRemovesFirstMatch ==
  [][/\ DeleteRemovesFirst("exif.delete", exif, exif')
     /\ DeleteRemovesFirst("iptc.delete", iptc, iptc')
     /\ DeleteRemovesFirst("xmp.delete", xmp, xmp')]_vars

\* C1 witness: a delete returned true and an entry with the deleted key is still there.
C1_Witness ==
  /\ op.name = "exif.delete"
  /\ op.ret = "true"
  /\ HasKey(exif[op.img], op.key)

\* c2 is c with one more entry, of key k, at the end.
Appended(c, c2, k) ==
  /\ Len(c2) = Len(c) + 1
  /\ SubSeq(c2, 1, Len(c)) = c
  /\ c2[Len(c2)].key = k

\* c2 is c with the value of its first entry of key k replaced, nothing else.
FirstMatchOverwritten(c, c2, k) ==
  \E p \in 1..Len(c) :
    /\ c[p].key = k
    /\ \A j \in 1..(p - 1) : c[j].key # k
    /\ Len(c2) = Len(c)
    /\ c2[p].key = k
    /\ \A j \in 1..Len(c) : j # p => c2[j] = c[j]

AddAppends(name, c, c2) ==
  (op'.name = name /\ op'.ret = "true") => Appended(c[op'.img], c2[op'.img], op'.key)

\* C2 as stated: in each of the three containers a successful add appends one
\* entry at the end and leaves the earlier entries unchanged, also when the key
\* is already present.
C2_AddAlwaysAppends ==
  [][/\ AddAppends("exif.add", exif, exif')
     /\ AddAppends("iptc.add", iptc, iptc')
     /\ AddAppends("xmp.add", xmp, xmp')]_vars

\* C2 amended: a successful EXIF or IPTC add appends one entry at the end, also
\* when the key is already present; a successful XMP add appends when the key is
\* absent, and when the key is present it replaces the value of the first entry
\* of that key in place, the length and every other entry unchanged.
C2_AddAppendsOrXmpOverwrites ==
  [][/\ AddAppends("exif.add", exif, exif')
     /\ AddAppends("iptc.add", iptc, iptc')
     /\ (op'.name = "xmp.add" /\ op'.ret = "true") =>
          IF HasKey(xmp[op'.img], op'.key)
          THEN FirstMatchOverwritten(xmp[op'.img], xmp'[op'.img], op'.key)
          ELSE Appended(xmp[op'.img], xmp'[op'.img], op'.key)]_vars

\* C2 witness: after a successful EXIF add the key is held twice, the new entry last.
C2_Witness ==
  /\ op.name = "exif.add"
  /\ op.ret = "true"
  /\ LET c == exif[op.img]
     IN /\ Len(c) >= 2
        /\ c[Len(c)].key = op.key
        /\ HasKey(SubSeq(c, 1, Len(c) - 1), op.key)

\* The container the call in op traversed (each() leaves the containers alone).
Traversed ==
  CASE op.name = "exif.each" -> exif[op.img]
    [] op.name = "iptc.each" -> iptc[op.img]
    [] op.name = "xmp.each" -> xmp[op.img]
    [] OTHER -> <<>>

\* C3: each() yields no pair for an entry of count 0 and exactly one pair, in
\* container order, for every entry of count greater than 0.
C3_EachYieldsExactlyNonEmpty ==
  op.name \in EachCalls =>
    /\ \A j \in 1..Len(yielded) :
         /\ yielded[j].idx \in 1..Len(Traversed)
         /\ Count(Traversed[yielded[j].idx]) > 0
         /\ yielded[j].key = Traversed[yielded[j].idx].key
    /\ \A j \in 1..(Len(yielded) - 1) : yielded[j].idx < yielded[j + 1].idx
    /\ \A p \in 1..Len(Traversed) :
         Count(Traversed[p]) > 0 => \E j \in 1..Len(yielded) : yielded[j].idx = p

\* The half of C3 that the code keeps: no entry of count 0 is yielded, the pairs
\* come in container order, and when no conversion raises every entry of count
\* greater than 0 is yielded.
EachSkipsEmptyAndKeepsOrder ==
  op.name \in EachCalls =>
    /\ \A j \in 1..Len(yielded) :
         /\ yielded[j].idx \in 1..Len(Traversed)
         /\ Count(Traversed[yielded[j].idx]) > 0
    /\ \A j \in 1..(Len(yielded) - 1) : yielded[j].idx < yielded[j + 1].idx
    /\ op.ret = "nil" =>
         \A p \in 1..Len(Traversed) :
           Count(Traversed[p]) > 0 => \E j \in 1..Len(yielded) : yielded[j].idx = p

\* The add fails: the key resolves to no tag, or Value::read refuses the text.
AddFails(keys, typeOf(_)) ==
  \/ op'.key \notin keys
  \/ ReadValue(typeOf(op'.key), op'.text).rc # 0

\* C4: an EXIF or IPTC add whose key cannot be resolved or whose text cannot be
\* parsed for the resolved type reports the failure (an error for EXIF, false
\* for IPTC) and leaves the container as it was.
C4_FailedAddReportsAndInsertsNothing ==
  [][/\ (op'.name = "exif.add" /\ AddFails(ExifKeys, ExifTypeId)) =>
          (op'.ret = "raise" /\ exif' = exif)
     /\ (op'.name = "iptc.add" /\ AddFails(IptcKeys, IptcTypeId)) =>
          (op'.ret = "false" /\ iptc' = iptc)]_vars

\* C7: after clear() on an image its three containers are empty, whatever they
\* held, so each() on any view of them yields nothing; the containers are those
\* left by the three views' clear().
C7_ImageClearEmptiesAll ==
  [][op'.name = "image.clear" =>
       LET i == op'.img
       IN /\ exif' = [exif EXCEPT ![i] = <<>>]
          /\ iptc' = [iptc EXCEPT ![i] = <<>>]
          /\ xmp' = [xmp EXCEPT ![i] = <<>>]
          /\ metadata_each(exif'[i], "UTF-8").out = <<>>
          /\ metadata_each(iptc'[i], iptc_parse_encoding(iptc'[i])).out = <<>>
          /\ metadata_each(xmp'[i], "UTF-8").out = <<>>]_vars

\* C7 witness: clear() on an image has returned and its containers are empty.
C7_Witness ==
  /\ op.name = "image.clear"
  /\ exif[op.img] = <<>> /\ iptc[op.img] = <<>> /\ xmp[op.img] = <<>>

-----------------------------------------------------------------------------
\* Specification of copy_to_image: two open images; one key and one text per
\* namespace keep the pairs of images enumerable.

InitCopy == InitWith(2, <<>>, <<>>, <<>>)

NextCopy ==
  \/ \E i \in OpenImages : Host(exif_data_add(i, "Exif.Image.ImageWidth", <<55>>))
  \/ \E i \in OpenImages : Host(exif_data_delete(i, "Exif.Image.ImageWidth"))
  \/ \E i \in OpenImages : Host(exif_data_clear(i))
  \/ \E i \in OpenImages : Host(iptc_data_add(i, "Iptc.Application2.Keywords", <<55>>))
  \/ \E i \in OpenImages : Host(iptc_data_delete(i, "Iptc.Application2.Keywords"))
  \/ \E i \in OpenImages : Host(iptc_data_clear(i))
  \/ \E i \in OpenImages : Host(xmp_data_add(i, "Xmp.dc.title", <<55>>))
  \/ \E i \in OpenImages : Host(xmp_data_delete(i, "Xmp.dc.title"))
  \/ \E i \in OpenImages : Host(xmp_data_clear(i))
  \/ \E i \in OpenImages : Host(image_clear(i))
  \/ \E i \in OpenImages, j \in OpenImages : Host(image_copy_to_image(i, j))

SpecCopy == InitCopy /\ [][NextCopy]_vars

\* The calls that change the containers of the image they are made on.
MutatingCalls ==
  AddCalls \cup DeleteCalls \cup {"exif.clear", "iptc.clear", "xmp.clear", "image.clear"}

\* C5: right after source.copy_to_image(target) the target's three containers
\* equal the source's, and an add, delete or clear on one image, through the
\* image or through a view of it, leaves every other image's containers
\* unchanged (so the copy stays as it was when the source changes, and the
\* source when the copy changes).
C5_CopyIsSnapshot ==
  [][/\ op'.name = "image.copy_to_image" =>
          /\ exif'[op'.other] = exif[op'.img]
          /\ iptc'[op'.other] = iptc[op'.img]
          /\ xmp'[op'.other] = xmp[op'.img]
          /\ \A o \in ObjIds \ {op'.other} :
               exif'[o] = exif[o] /\ iptc'[o] = iptc[o] /\ xmp'[o] = xmp[o]
     /\ op'.name \in MutatingCalls =>
          \A o \in ObjIds \ {op'.img} :
            exif'[o] = exif[o] /\ iptc'[o] = iptc[o] /\ xmp'[o] = xmp[o]]_vars

\* C5 witness: a copy to another image has returned and the target holds the
\* source's entries in all three containers.
C5_Witness ==
  /\ op.name = "image.copy_to_image"
  /\ op.other # op.img
  /\ exif[op.img] # <<>> /\ iptc[op.img] # <<>> /\ xmp[op.img] # <<>>
  /\ exif[op.other] = exif[op.img]
  /\ iptc[op.other] = iptc[op.img]
  /\ xmp[op.other] = xmp[op.img]

-----------------------------------------------------------------------------
\* Lifetime of images and views under Ruby's garbage collector.

\* Data_Wrap_Struct(view class, 0, 0, &image->...Data()) and
\* rb_iv_set(view, "@image", self): the view points into the image's storage and
\* references the image object.
WrapViewNoIvar(cls, self) == [cls |-> cls, ivar |-> 0, ptr |-> self]

WrapView(cls, self) == [cls |-> cls, ivar |-> self, ptr |-> self]

Allocated == {o \in ObjIds : heap[o].cls \notin {"none", "freed"}}
FreeIds == {o \in ObjIds : heap[o].cls = "none"}
NewId == CHOOSE o \in FreeIds : \A q \in FreeIds : o <= q

RECURSIVE Marked(_)
\* The mark phase: everything reachable from S through instance variables.
Marked(S) ==
  LET T == S \cup {heap[o].ivar : o \in {q \in S : heap[q].ivar # 0}}
  IN IF T = S THEN S ELSE Marked(T)

Reachable == Marked(roots)

\* ImageFactory.open: a new Image object (free function image_free), or a
\* BasicError raised into Ruby.
image_factory_open ==
  /\ Running
  /\ FreeIds # {}
  /\ yielded' = <<>>
  /\ \/ /\ heap' = [heap EXCEPT ![NewId] = ImageObj(NewId)]
        /\ roots' = roots \cup {NewId}
        /\ op' = Call("ImageFactory.open", NewId, "", <<>>, "object")
     \/ /\ op' = Call("ImageFactory.open", 0, "", <<>>, "raise")
        /\ UNCHANGED <<heap, roots>>
  /\ UNCHANGED <<exif, iptc, xmp>>

\* image.exif_data / iptc_data / xmp_data, called on an image the host holds.
image_view(cls, self) ==
  /\ Running
  /\ FreeIds # {}
  /\ self \in roots /\ heap[self].cls = "Image"
  /\ yielded' = <<>>
  /\ heap' = [heap EXCEPT ![NewId] = WrapView(cls, self)]
  /\ roots' = roots \cup {NewId}
  /\ op' = [Call("image.view", self, cls, <<>>, "object") EXCEPT !.other = NewId]
  /\ UNCHANGED <<exif, iptc, xmp>>

image_exif_data(self) == image_view("ExifData", self)
image_iptc_data(self) == image_view("IptcData", self)
image_xmp_data(self) == image_view("XmpData", self)

\* The host forgets one of its references.
HostDrop(o) ==
  /\ Running
  /\ o \in roots
  /\ roots' = roots \ {o}
  /\ op' = Call("drop", o, "", <<>>, "nil")
  /\ yielded' = <<>>
  /\ UNCHANGED <<exif, iptc, xmp, heap>>

\* The sweep of one unmarked object. An Image is freed by image_free (delete
\* image: its three containers go with it); a view has no free function.
image_free(o) ==
  /\ Running
  /\ o \in Allocated \ Reachable
  /\ heap' = [heap EXCEPT ![o] = [cls |-> "freed", ivar |-> 0, ptr |-> 0]]
  /\ IF heap[o].cls = "Image"
     THEN /\ exif' = [exif EXCEPT ![o] = <<>>]
          /\ iptc' = [iptc EXCEPT ![o] = <<>>]
          /\ xmp' = [xmp EXCEPT ![o] = <<>>]
     ELSE UNCHANGED <<exif, iptc, xmp>>
  /\ op' = Call("gc", o, "", <<>>, "nil")
  /\ yielded' = <<>>
  /\ UNCHANGED roots

\* A method called on a view the host holds (Data_Get_Struct, then the
\* container is used): the image it points into when that image is live; when
\* it has been deleted the pointer dangles and the call is undefined.
view_use(v) ==
  /\ Running
  /\ v \in roots /\ heap[v].cls \in ViewClasses
  /\ yielded' = <<>>
  /\ op' = [Call("view.use", heap[v].ptr, heap[v].cls, <<>>,
                 IF heap[heap[v].ptr].cls = "Image" THEN "nil" ELSE "undefined")
            EXCEPT !.other = v]
  /\ UNCHANGED <<exif, iptc, xmp, heap, roots>>

InitGC ==
  /\ exif = [o \in ObjIds |-> <<>>]
  /\ iptc = [o \in ObjIds |-> <<>>]
  /\ xmp = [o \in ObjIds |-> <<>>]
  /\ op = Call("init", 0, "", <<>>, "nil")
  /\ yielded = <<>>
  /\ heap = [o \in ObjIds |-> NoObj]
  /\ roots = {}
  /\ trav = NoTrav

NextGC ==
  \/ Host(image_factory_open)
  \/ \E o \in ObjIds : Host(image_exif_data(o))
  \/ \E o \in ObjIds : Host(image_iptc_data(o))
  \/ \E o \in ObjIds : Host(image_xmp_data(o))
  \/ \E o \in ObjIds : Host(HostDrop(o))
  \/ \E o \in ObjIds : Host(image_free(o))
  \/ \E o \in ObjIds : Host(view_use(o))

SpecGC == InitGC /\ [][NextGC]_vars

\* C6: every view the host can still reach points into an image that has not
\* been freed, also when the host holds no reference to the image itself and
\* the collector has run; no call on a view is undefined.
C6_ViewsKeepImageAlive ==
  /\ \A v \in Reachable :
       heap[v].cls \in ViewClasses => heap[heap[v].ptr].cls = "Image"
  /\ op.ret # "undefined"

\* C6 witness: the collector has just swept an object, and the host holds a
\* view of an image it holds no reference to; the image is live.
C6_Witness ==
  /\ op.name = "gc"
  /\ \E v \in roots :
       /\ heap[v].cls \in ViewClasses
       /\ heap[v].ptr \notin roots
       /\ heap[heap[v].ptr].cls = "Image"

-----------------------------------------------------------------------------
\* Specification of the IPTC encoding resolver: the IPTC container starts as
\* any of the inputs below and is traversed, and markers are deleted so that a
\* later marker becomes the first.

\* The recognised escape sequences, two unrecognised ones (ESC . E and "7"),
\* and the empty value.
MarkerValues ==
  {<<27, 37, 71>>, <<27, 37, 47, 73>>, <<27, 37, 47, 76>>, <<27, 37, 47, 70>>,
   <<27, 40, 66>>, <<27, 46, 65>>, <<27, 46, 66>>, <<27, 46, 67>>, <<27, 46, 68>>,
   <<27, 46, 70>>, <<27, 46, 71>>, <<27, 46, 72>>, <<27, 47, 98>>,
   <<27, 46, 69>>, <<55>>, <<>>}

Marker(value, isOk) ==
  MkEntry("Iptc.Envelope.CharacterSet", "string", [NoValue EXCEPT !.str = value], isOk)

Keyword == MkEntry("Iptc.Application2.Keywords", "string", [NoValue EXCEPT !.str = <<55>>], TRUE)

EncInputs ==
  {<<>>, <<Keyword>>}
  \cup {<<Marker(v, b), Keyword>> : v \in MarkerValues, b \in BOOLEAN}
  \cup {<<Keyword, Marker(v, b)>> : v \in MarkerValues, b \in BOOLEAN}
  \cup {<<Marker(v, b), Marker(<<27, 37, 47, 76>>, TRUE), Keyword>> :
          v \in {<<27, 37, 71>>, <<55>>}, b \in BOOLEAN}

InitEnc == \E c \in EncInputs : InitWith(1, <<>>, c, <<>>)

NextEnc ==
  \/ \E i \in OpenImages : Host(iptc_data_each(i))
  \/ \E i \in OpenImages, v \in MarkerValues :
       Host(iptc_data_add(i, "Iptc.Envelope.CharacterSet", v))
  \/ \E i \in OpenImages : Host(iptc_data_delete(i, "Iptc.Envelope.CharacterSet"))

SpecEnc == InitEnc /\ [][NextEnc]_vars

\* The table of the claim: escape sequence -> encoding.
EscapeTable ==
  {<< <<27, 37, 71>>, "UTF-8" >>, << <<27, 37, 47, 73>>, "UTF-8" >>,
   << <<27, 37, 47, 76>>, "UTF-16" >>, << <<27, 37, 47, 70>>, "UTF-32" >>,
   << <<27, 40, 66>>, "US-ASCII" >>,
   << <<27, 46, 65>>, "ISO-8859-1" >>, << <<27, 46, 66>>, "ISO-8859-2" >>,
   << <<27, 46, 67>>, "ISO-8859-3" >>, << <<27, 46, 68>>, "ISO-8859-4" >>,
   << <<27, 46, 70>>, "ISO-8859-7" >>, << <<27, 46, 71>>, "ISO-8859-6" >>,
   << <<27, 46, 72>>, "ISO-8859-8" >>, << <<27, 47, 98>>, "ISO-8859-15" >>}

\* The encoding the claim gives for container c.
ClaimedEncoding(c) ==
  LET markers == {p \in 1..Len(c) : c[p].key = "Iptc.Envelope.CharacterSet"}
  IN IF markers = {} THEN "ISO-8859-1"
     ELSE LET first == CHOOSE p \in markers : \A q \in markers : p <= q
              rows == {r \in EscapeTable : r[1] = c[first].val.str}
          IN IF ~c[first].ok \/ rows = {} THEN "ISO-8859-1"
             ELSE (CHOOSE r \in rows : TRUE)[2]

\* C8: the resolver returns ISO-8859-1 when there is no character-set marker,
\* when the first marker is not ok, or when its value is no recognised escape
\* sequence, and the table's encoding when the first marker is ok and
\* recognised; every String yielded by an IPTC each() carries that encoding.
C8_EncodingResolved ==
  \A i \in OpenImages :
    /\ iptc_parse_encoding(iptc[i]) = ClaimedEncoding(iptc[i])
    /\ (op.name = "iptc.each" /\ op.img = i) =>
         \A j \in 1..Len(yielded) :
           yielded[j].kind = "String" => yielded[j].enc = ClaimedEncoding(iptc[i])

\* C8 witness: an IPTC each() has yielded a String tagged UTF-16 from a
\* container whose second marker is the first one left.
C8_Witness ==
  /\ op.name = "iptc.each"
  /\ \E j \in 1..Len(yielded) : yielded[j].kind = "String" /\ yielded[j].enc = "UTF-16"
  /\ Len(iptc[op.img]) = 2

-----------------------------------------------------------------------------
\* Specification of the language-alternative decode: the XMP container starts
\* with one title holding any map of up to three languages, in any map order.

LangTags == {"x-default", "de", "en"}
LangTexts == {<<55>>, <<>>}

LangItem == [lang : LangTags, text : LangTexts]

\* The sequences of items with pairwise different languages.
DistinctLangs(m) == Cardinality({m[n].lang : n \in 1..Len(m)}) = Len(m)

LangMaps ==
  {m \in {<<>>} \cup {<<a>> : a \in LangItem}
         \cup {<<a, b>> : a \in LangItem, b \in LangItem}
         \cup {<<a, b, c>> : a \in LangItem, b \in LangItem, c \in LangItem} :
     DistinctLangs(m)}

Title(m) == MkEntry("Xmp.dc.title", "langAlt", [NoValue EXCEPT !.items = m], TRUE)

InitLang == \E m \in LangMaps : InitWith(1, <<>>, <<>>, <<Title(m)>>)

NextLang ==
  \/ \E i \in OpenImages : Host(xmp_data_each(i))
  \/ \E i \in OpenImages, t \in LangTexts : Host(xmp_data_add(i, "Xmp.dc.title", t))

SpecLang == InitLang /\ [][NextLang]_vars

ItemSet(items) == {items[n] : n \in 1..Len(items)}

\* C9: a language-alternative entry with at least one language is yielded as a
\* String exactly when it has one language and that language is x-default, the
\* String being that language's text; otherwise it is yielded as a Hash holding
\* exactly the entry's languages with their texts.
C9_LangAltCollapse ==
  op.name = "xmp.each" =>
    \A j \in 1..Len(yielded) :
      LET e == xmp[op.img][yielded[j].idx]
          single == Len(e.val.items) = 1 /\ e.val.items[1].lang = "x-default"
      IN e.typeId = "langAlt" =>
           /\ yielded[j].kind = "String" <=> single
           /\ single => yielded[j].str = e.val.items[1].text
           /\ ~single =>
                /\ yielded[j].kind = "Hash"
                /\ ItemSet(yielded[j].items) = ItemSet(e.val.items)
                /\ Len(yielded[j].items) = Len(e.val.items)

\* C9 witness: an entry whose only language is not x-default was yielded as a Hash.
C9_Witness ==
  /\ op.name = "xmp.each"
  /\ \E j \in 1..Len(yielded) :
       /\ yielded[j].kind = "Hash"
       /\ Len(yielded[j].items) = 1
       /\ yielded[j].items[1].lang = "de"

-----------------------------------------------------------------------------
\* Specification of each() with a block that calls back into the binding.
\* metadata_each holds a C++ iterator across rb_yield; the block runs host code,
\* which may call add, delete or clear on the container being traversed.
\* ExifData is a std::list, IptcData and XmpData are std::vector: trav.valid
\* tells whether the iterator survived the calls made so far.

Cont(ns, i) ==
  CASE ns = "exif" -> exif[i]
    [] ns = "iptc" -> iptc[i]
    [] ns = "xmp" -> xmp[i]

\* Entry of exif_data_each / iptc_data_each / xmp_data_each: the encoding is
\* resolved (IPTC), the iterator is set to begin().
each_begin(ns, i) ==
  /\ Running
  /\ trav.pc = "idle"
  /\ trav' = [pc |-> "loop", ns |-> ns, img |-> i, it |-> 1, valid |-> TRUE,
              enc |-> IF ns = "iptc" THEN iptc_parse_encoding(iptc[i]) ELSE "UTF-8",
              out |-> <<>>, snap |-> Cont(ns, i)]
  /\ op' = Call("each.begin", i, ns, <<>>, "nil")
  /\ yielded' = <<>>
  /\ UNCHANGED <<exif, iptc, xmp, heap, roots>>

EachName(ns) ==
  CASE ns = "exif" -> "exif.each" [] ns = "iptc" -> "iptc.each" [] ns = "xmp" -> "xmp.each"

\* One turn of the for loop with a valid iterator: the end test, the count test,
\* the conversion, rb_yield.
each_step ==
  LET data == Cont(trav.ns, trav.img)
  IN /\ Running
     /\ trav.pc = "loop" /\ trav.valid
     /\ IF trav.it > Len(data)
        THEN /\ trav' = [trav EXCEPT !.pc = "idle"]
             /\ yielded' = trav.out
             /\ op' = Call(EachName(trav.ns), trav.img, "", <<>>, "nil")
        ELSE IF Count(data[trav.it]) = 0
        THEN /\ trav' = [trav EXCEPT !.it = @ + 1]
             /\ UNCHANGED <<yielded, op>>
        ELSE IF Raises(data[trav.it])
        THEN /\ trav' = [trav EXCEPT !.pc = "idle"]
             /\ yielded' = trav.out
             /\ op' = Call(EachName(trav.ns), trav.img, "", <<>>, "raise")
        ELSE /\ Len(trav.out) < MaxYields
             /\ trav' = [trav EXCEPT !.pc = "block",
                           !.out = Append(@, Decode(trav.it, data[trav.it], trav.enc))]
             /\ UNCHANGED <<yielded, op>>
     /\ UNCHANGED <<exif, iptc, xmp, heap, roots>>

\* The block returns: it++.
block_return ==
  /\ Running
  /\ trav.pc = "block"
  /\ trav' = [trav EXCEPT !.pc = "loop", !.it = @ + 1]
  /\ UNCHANGED <<exif, iptc, xmp, op, yielded, heap, roots>>

\* The loop goes on with an invalidated iterator: undefined behaviour. The
\* process crashes, or the iterator compares and dereferences as some position
\* of the container.
each_undefined ==
  /\ Running
  /\ trav.pc = "loop" /\ ~trav.valid
  /\ \/ /\ op' = Call(EachName(trav.ns), trav.img, "", <<>>, "crash")
        /\ trav' = [trav EXCEPT !.pc = "idle"]
        /\ yielded' = trav.out
     \/ /\ \E p \in 1..(Len(Cont(trav.ns, trav.img)) + 1) :
             trav' = [trav EXCEPT !.it = p, !.valid = TRUE]
        /\ UNCHANGED <<op, yielded>>
  /\ UNCHANGED <<exif, iptc, xmp, heap, roots>>

\* The iterator after erase(pos): a std::list iterator dangles only when its own
\* node is erased (an earlier node's erasure moves its position down); a
\* std::vector iterator is invalidated at and after the erased position.
AfterErase(ns, pos) ==
  IF ns = "exif"
  THEN IF pos = trav.it THEN [trav EXCEPT !.valid = FALSE]
       ELSE IF pos < trav.it THEN [trav EXCEPT !.it = @ - 1]
       ELSE trav
  ELSE IF pos <= trav.it THEN [trav EXCEPT !.valid = FALSE] ELSE trav

\* The block calls delete on the traversed container.
block_delete(k) ==
  LET ns == trav.ns
      i == trav.img
      pos == FindKey(Cont(ns, i), k)
  IN /\ trav.pc = "block"
     /\ \/ ns = "exif" /\ k \in ExifKeys /\ exif_data_delete(i, k)
        \/ ns = "iptc" /\ k \in IptcKeys /\ iptc_data_delete(i, k)
        \/ ns = "xmp" /\ k \in XmpKeys /\ xmp_data_delete(i, k)
     /\ trav' = IF pos <= Len(Cont(ns, i)) THEN AfterErase(ns, pos) ELSE trav

\* The block calls add on the traversed container: push_back leaves a std::list
\* iterator valid, and invalidates a std::vector iterator when the vector
\* reallocates (either outcome is possible here).
block_add(k, t) ==
  LET ns == trav.ns
      i == trav.img
  IN /\ trav.pc = "block"
     /\ \/ /\ ns = "exif" /\ k \in ExifKeys /\ exif_data_add(i, k, t)
           /\ UNCHANGED trav
        \/ /\ ns = "iptc" /\ k \in IptcKeys /\ iptc_data_add(i, k, t)
           /\ \E keeps \in BOOLEAN :
                trav' = IF keeps \/ iptc'[i] = iptc[i]
                        THEN trav ELSE [trav EXCEPT !.valid = FALSE]
        \/ /\ ns = "xmp" /\ k \in XmpKeys /\ xmp_data_add(i, k, t)
           /\ \E keeps \in BOOLEAN :
                trav' = IF keeps \/ Len(xmp'[i]) = Len(xmp[i])
                        THEN trav ELSE [trav EXCEPT !.valid = FALSE]

\* The block calls clear on the traversed container: every iterator to an
\* element is invalidated.
block_clear ==
  LET ns == trav.ns
      i == trav.img
  IN /\ trav.pc = "block"
     /\ \/ ns = "exif" /\ exif_data_clear(i)
        \/ ns = "iptc" /\ iptc_data_clear(i)
        \/ ns = "xmp" /\ xmp_data_clear(i)
     /\ trav' = [trav EXCEPT !.valid = FALSE]

\* One key and one text for EXIF and IPTC, the two XMP keys (an XMP container
\* holds a key once).
TravKeys == {"Exif.Image.ImageWidth", "Iptc.Application2.Keywords",
             "Xmp.dc.title", "Xmp.dc.subject"}
TravTexts == {<<55>>}

InitTrav == InitWith(1, <<>>, <<>>, <<>>)

NextTrav ==
  \/ \E i \in OpenImages, t \in TravTexts :
       Host(exif_data_add(i, "Exif.Image.ImageWidth", t))
  \/ \E i \in OpenImages, t \in TravTexts :
       Host(iptc_data_add(i, "Iptc.Application2.Keywords", t))
  \/ \E i \in OpenImages, k \in XmpKeys, t \in TravTexts : Host(xmp_data_add(i, k, t))
  \/ \E i \in OpenImages : Host(image_clear(i))
  \/ \E i \in OpenImages, ns \in {"exif", "iptc", "xmp"} : each_begin(ns, i)
  \/ each_step
  \/ block_return
  \/ each_undefined
  \/ \E k \in TravKeys : block_delete(k)
  \/ \E k \in TravKeys, t \in TravTexts : block_add(k, t)
  \/ block_clear

SpecTrav == InitTrav /\ [][NextTrav]_vars

\* C10: a traversal that has returned yielded the pairs, with the encoding,
\* that the container's contents at the time each() was called determine: no
\* add, delete or clear took effect between two of its yields.
C10_EachSeesCallTimeState ==
  (op.name \in EachCalls /\ op.ret = "nil" /\ trav.ns # "") =>
     /\ yielded = metadata_each(trav.snap, trav.enc).out
     /\ Cont(trav.ns, trav.img) = trav.snap

====
